---------------------------- MODULE Spec2Model ----------------------------
(***************************************************************************)
(* serde_esri: conversion of geo-types geometries into Esri JSON geometry  *)
(* objects (src/from_geo.rs) and the paginated place-search iterators      *)
(* (src/places/query/place_search.rs).                                     *)
(*                                                                         *)
(* Coordinates are f64 in the program; the model uses small integers, on   *)
(* which the orientation predicate is exact, as geo's robust kernel is.    *)
(***************************************************************************)
EXTENDS Integers, Sequences, FiniteSets, TLC

VARIABLES
    source,     \* the geo_types::Geometry handed to try_into
    result,     \* Result<EsriGeometry<2>, Option<()>> of the conversion
    server,     \* the pages the places service holds for a query
    query,      \* NearPointQuery / WithinExtentQuery: results, next_page
    ret,        \* what the last call on the query returned
    yielded,    \* every PlaceResult handed out so far, in order
    fetched,    \* the page URLs requested so far, in order
    failures    \* how many of those requests failed

vars == <<source, result, server, query, ret, yielded, fetched, failures>>

-----------------------------------------------------------------------------
(* Bounds of the model.                                                    *)

\* coordinates of a line string or ring before it is closed
MaxRingLen == 5
\* interior rings of a polygon
MaxInteriors == 2
\* polygons of a multi polygon
MaxPolys == 2
\* points of a multi point
MaxPts == 3
\* line strings of a multi line string
MaxLines == 2
\* members of a geometry collection
MaxColl == 2

-----------------------------------------------------------------------------
(* Generic helpers.                                                        *)

SeqsUpTo(S, n) == UNION {[1..k -> S] : k \in 0..n}

Reverse(s) == [i \in 1..Len(s) |-> s[Len(s) + 1 - i]]

RECURSIVE Flatten(_)
Flatten(ss) == IF ss = <<>> THEN <<>> ELSE Head(ss) \o Flatten(Tail(ss))

None == "None"

-----------------------------------------------------------------------------
(* Source geometry model (geo_types).                                      *)

Coord(x, y) == [x |-> x, y |-> y]

\* the coordinates geometries are drawn from: the corners of the unit
\* square and a third point on its bottom line, so that three of them can
\* turn left, turn right or run straight
Coords == {Coord(0, 0), Coord(1, 0), Coord(2, 0), Coord(0, 1), Coord(1, 1)}

\* LineString::is_closed: first() == last(), which holds of the empty string
is_closed(ls) == ls = <<>> \/ ls[1] = ls[Len(ls)]

\* LineString::close
close(ls) == IF is_closed(ls) THEN ls ELSE Append(ls, ls[1])

\* Polygon::new closes every ring it is given
PolygonNew(exterior, interiors) ==
    [exterior |-> close(exterior),
     interiors |-> [i \in 1..Len(interiors) |-> close(interiors[i])]]

\* Rect::new orders the corners into min and max
RectNew(c1, c2) ==
    [min |-> Coord(IF c1.x < c2.x THEN c1.x ELSE c2.x, IF c1.y < c2.y THEN c1.y ELSE c2.y),
     max |-> Coord(IF c1.x < c2.x THEN c2.x ELSE c1.x, IF c1.y < c2.y THEN c2.y ELSE c1.y)]

\* Rect::to_polygon: the four corners from (max.x, min.y) on, closed
RectToPolygon(r) ==
    PolygonNew(<<Coord(r.max.x, r.min.y), Coord(r.max.x, r.max.y),
                 Coord(r.min.x, r.max.y), Coord(r.min.x, r.min.y),
                 Coord(r.max.x, r.min.y)>>, <<>>)

\* Triangle::to_polygon
TriangleToPolygon(t) == PolygonNew(<<t[1], t[2], t[3], t[1]>>, <<>>)

-----------------------------------------------------------------------------
(* geo::Orient, as called with Direction::Reversed.                        *)

\* lexicographic order on coordinates, x first
LexLess(p, q) == p.x < q.x \/ (p.x = q.x /\ p.y < q.y)

\* index of the first lexicographically least coordinate
least_index(pts) ==
    CHOOSE i \in 1..Len(pts) :
        /\ \A j \in 1..Len(pts) : ~LexLess(pts[j], pts[i])
        /\ \A j \in 1..(i - 1) : pts[j] # pts[i]

\* sign of the turn p -> q -> r: positive is counter-clockwise
orient2d(p, q, r) == (q.x - p.x) * (r.y - q.y) - (q.y - p.y) * (r.x - q.x)

increment(pts, x) == IF x + 1 > Len(pts) THEN 1 ELSE x + 1

decrement(pts, x) == IF x = 1 THEN Len(pts) ELSE x - 1

\* the first index after i, cyclically, holding another coordinate; 0 if none
RECURSIVE NextDistinct(_, _, _)
NextDistinct(pts, i, next) ==
    IF pts[next] # pts[i] THEN next
    ELSE IF next = i THEN 0
    ELSE NextDistinct(pts, i, increment(pts, next))

RECURSIVE PrevDistinct(_, _, _)
PrevDistinct(pts, i, prev) ==
    IF pts[prev] # pts[i] THEN prev
    ELSE PrevDistinct(pts, i, decrement(pts, prev))

\* Winding::winding_order of a LineString
winding_order(ls) ==
    IF Len(ls) < 4 \/ ~is_closed(ls) THEN None
    ELSE LET i == least_index(ls)
             next == NextDistinct(ls, i, increment(ls, i))
         IN IF next = 0 THEN None
            ELSE LET prev == PrevDistinct(ls, i, decrement(ls, i))
                     o == orient2d(ls[prev], ls[i], ls[next])
                 IN IF o > 0 THEN "CounterClockwise"
                    ELSE IF o < 0 THEN "Clockwise"
                    ELSE None

\* a reversal that leaves the closing coordinate where it is
reverse_before_closing(ls) ==
    IF ls = <<>> THEN ls
    ELSE [i \in 1..Len(ls) |-> IF i = Len(ls) THEN ls[i] ELSE ls[Len(ls) - i]]

\* Vec::reverse of the coordinates
reverse(ls) == [i \in 1..Len(ls) |-> ls[Len(ls) + 1 - i]]

\* a make_cw_winding that reverses nothing
make_cw_winding_never(ls) == ls

\* Winding::make_cw_winding on a clone
make_cw_winding(ls) ==
    IF winding_order(ls) = "CounterClockwise" THEN reverse(ls) ELSE ls

\* a make_ccw_winding that reverses the rings that are counter-clockwise
make_ccw_winding_swapped(ls) ==
    IF winding_order(ls) = "CounterClockwise" THEN reverse(ls) ELSE ls

\* Winding::make_ccw_winding on a clone
make_ccw_winding(ls) ==
    IF winding_order(ls) = "Clockwise" THEN reverse(ls) ELSE ls

\* Polygon::orient(Direction::Default): exterior counter-clockwise,
\* interiors clockwise
OrientDefault(poly) ==
    PolygonNew(make_ccw_winding(poly.exterior),
               [i \in 1..Len(poly.interiors) |-> make_cw_winding(poly.interiors[i])])

\* Polygon::orient(Direction::Reversed): exterior clockwise, interiors
\* counter-clockwise
OrientReversed(poly) ==
    PolygonNew(make_cw_winding(poly.exterior),
               [i \in 1..Len(poly.interiors) |-> make_ccw_winding(poly.interiors[i])])

\* the reversal of every ring of the shape, whatever its winding
ReverseAllRings(mp) ==
    [i \in 1..Len(mp) |->
        PolygonNew(reverse(mp[i].exterior),
                   [k \in 1..Len(mp[i].interiors) |-> reverse(mp[i].interiors[k])])]

\* MultiPolygon::orient(Direction::Reversed)
OrientReversedMulti(mp) == [i \in 1..Len(mp) |-> OrientReversed(mp[i])]

\* the interiors, then the exterior
rings_interiors_first(poly) == poly.interiors \o <<poly.exterior>>

\* rings() of a polygon: the exterior, then the interiors
rings(poly) == <<poly.exterior>> \o poly.interiors

\* rings() of a multi polygon: the rings of each polygon, in polygon order
ringsMulti(mp) == Flatten([i \in 1..Len(mp) |-> rings(mp[i])])

-----------------------------------------------------------------------------
(* Conversions of src/from_geo.rs.                                         *)

\* the components in the other order
CoordIntoEsriCoordSwapped(c) == <<c.y, c.x>>

CoordIntoEsriCoord(c) == <<c.x, c.y>>

LineStringIntoEsriLineString(ls) ==
    [i \in 1..Len(ls) |-> CoordIntoEsriCoord(ls[i])]

PointIntoEsriPoint(p) ==
    [x |-> p.x, y |-> p.y, z |-> None, m |-> None, spatialReference |-> None]

MultiPointIntoEsriMultiPoint(mp) ==
    [hasZ |-> None, hasM |-> None,
     points |-> [i \in 1..Len(mp) |-> CoordIntoEsriCoord(mp[i])],
     spatialReference |-> None]

LineIntoEsriPolyline(l) ==
    [hasZ |-> None, hasM |-> None,
     paths |-> << <<CoordIntoEsriCoord(l.start), CoordIntoEsriCoord(l.end)>> >>,
     spatialReference |-> None]

LineStringIntoEsriPolyline(ls) ==
    [hasZ |-> None, hasM |-> None,
     paths |-> <<LineStringIntoEsriLineString(ls)>>,
     spatialReference |-> None]

\* paths rewound as if they were exterior rings
MultiLineStringIntoEsriPolylineRewound(mls) ==
    [hasZ |-> None, hasM |-> None,
     paths |-> [i \in 1..Len(mls) |-> LineStringIntoEsriLineString(make_cw_winding(mls[i]))],
     spatialReference |-> None]

MultiLineStringIntoEsriPolyline(mls) ==
    [hasZ |-> None, hasM |-> None,
     paths |-> [i \in 1..Len(mls) |-> LineStringIntoEsriLineString(mls[i])],
     spatialReference |-> None]

PolygonIntoEsriPolygon(poly) ==
    LET rewound == OrientReversed(poly)
        rs == rings(rewound)
    IN [hasZ |-> None, hasM |-> None,
        rings |-> [i \in 1..Len(rs) |-> LineStringIntoEsriLineString(rs[i])],
        spatialReference |-> None]

MultiPolygonIntoEsriPolygon(mp) ==
    LET rewound == OrientReversedMulti(mp)
        rs == ringsMulti(rewound)
    IN [hasZ |-> None, hasM |-> None,
        rings |-> [i \in 1..Len(rs) |-> LineStringIntoEsriLineString(rs[i])],
        spatialReference |-> None]

TriangleIntoEsriPolygon(t) == PolygonIntoEsriPolygon(TriangleToPolygon(t))

RectIntoEsriPolygon(r) == PolygonIntoEsriPolygon(RectToPolygon(r))

Ok(tag, v) == [status |-> "Ok", tag |-> tag, value |-> v]

Err == [status |-> "Err", tag |-> None, value |-> None]

Unset == [status |-> "Unset", tag |-> None, value |-> None]

-----------------------------------------------------------------------------
(* Inputs of the conversion.                                               *)

\* every line string of at most MaxRingLen coordinates
LineStrings == SeqsUpTo(Coords, MaxRingLen)

\* every ring Polygon::new can hold from at most MaxRingLen coordinates
Rings == {close(ls) : ls \in LineStrings}

\* three rings used where several rings are combined: a counter-clockwise
\* square, a clockwise triangle and a ring without winding order
SampleRings ==
    {<<Coord(0, 0), Coord(1, 0), Coord(1, 1), Coord(0, 1), Coord(0, 0)>>,
     <<Coord(0, 0), Coord(0, 1), Coord(1, 1), Coord(0, 0)>>,
     <<Coord(1, 0), Coord(1, 0), Coord(0, 1), Coord(1, 0)>>}

\* two open paths of 2 and 3 vertices and the sample rings
SampleLines ==
    {<<Coord(0, 0), Coord(1, 1)>>,
     <<Coord(1, 0), Coord(0, 0), Coord(0, 1)>>} \cup SampleRings

SamplePolygons ==
    {PolygonNew(e, is) : e \in SampleRings, is \in SeqsUpTo(SampleRings, MaxInteriors)}

\* polygons of any one ring, polygons of the square with any one hole, and
\* the sample polygons
Polygons ==
    {PolygonNew(e, <<>>) : e \in Rings}
        \cup {PolygonNew(<<Coord(0, 0), Coord(1, 0), Coord(1, 1), Coord(0, 1)>>, <<r>>) :
                r \in Rings}
        \cup SamplePolygons

\* multi polygons of sample polygons with at most one hole each
MultiPolygons ==
    SeqsUpTo({p \in SamplePolygons : Len(p.interiors) <= 1}, MaxPolys)

Points == Coords

MultiPoints == SeqsUpTo(Coords, MaxPts)

Lines == {[start |-> a, end |-> b] : a \in Coords, b \in Coords}

MultiLineStrings == SeqsUpTo(SampleLines, MaxLines)

Rects == {RectNew(a, b) : a \in Coords, b \in Coords}

Triangles == Coords \X Coords \X Coords

\* collections of points and collections of polygons, the empty one included
PointCollections == SeqsUpTo({[tag |-> "Point", g |-> p] : p \in Points}, MaxColl)

PolygonCollections ==
    SeqsUpTo({[tag |-> "Polygon", g |-> PolygonNew(e, <<>>)] : e \in SampleRings}, MaxColl)
        \ {<<>>}

Geometry(tag, g) == [tag |-> tag, g |-> g]

-----------------------------------------------------------------------------
(* The places service and the paginated queries.                           *)

\* pages a query can span
MaxPages == 3
\* results on one page
MaxPageLen == 2
\* failed page requests in one run
MaxFailures == 2

\* A page URL is the index of the page it names; NoUrl is Option::None.
NoUrl == 0

\* PlaceResult k of page p
PlaceResult(p, k) == <<p, k>>

NoResult == <<0, 0>>

\* PointResponse of page p out of n: its results and its pagination, which
\* on the last page is absent (some = FALSE) or holds no next_url
PointResponse(p, n, len, lastSome) ==
    [results |-> [k \in 1..len |-> PlaceResult(p, k)],
     pagination |-> [some |-> (p < n \/ lastSome),
                     next_url |-> IF p < n THEN p + 1 ELSE NoUrl]]

Servers ==
    UNION {{[p \in 1..n |-> PointResponse(p, n, lens[p], lastSome)] :
                lens \in [1..n -> 0..MaxPageLen], lastSome \in BOOLEAN} :
           n \in 1..MaxPages}

\* what a request can come to: a decoded response, a transport failure, a
\* body that does not decode, and (first request only) an error document
Outcomes == {"ok", "send_err", "json_err"}

NotCreated == [kind |-> "NotCreated", results |-> <<>>, next_page |-> NoUrl]

\* "fetch the pagination": pagination.next_url, or None without pagination
NextPageOf(resp) == IF resp.pagination.some THEN resp.pagination.next_url ELSE NoUrl

\* NearPointQuery::new / WithinExtentQuery::new on a decoded PointResponse
QueryNew(kind, resp) ==
    [kind |-> kind, results |-> resp.results, next_page |-> NextPageOf(resp)]

\* a try_next that takes the URL out of next_page before it sends the
\* request, and so has lost it when the request fails
try_next_taking(q, srv, outcome) ==
    IF q.results # <<>>
    THEN [q |-> [q EXCEPT !.results = Tail(q.results)],
          r |-> [tag |-> "Some", item |-> Head(q.results)], url |-> NoUrl]
    ELSE IF q.next_page = NoUrl
    THEN [q |-> q, r |-> [tag |-> "None", item |-> NoResult], url |-> NoUrl]
    ELSE IF outcome # "ok"
    THEN [q |-> [q EXCEPT !.next_page = NoUrl],
          r |-> [tag |-> "Err", item |-> NoResult], url |-> q.next_page]
    ELSE LET next_page == srv[q.next_page]
             rest == IF next_page.results = <<>> THEN <<>> ELSE Tail(next_page.results)
         IN [q |-> [q EXCEPT !.results = rest, !.next_page = NextPageOf(next_page)],
             r |-> IF next_page.results = <<>>
                   THEN [tag |-> "None", item |-> NoResult]
                   ELSE [tag |-> "Some", item |-> Head(next_page.results)],
             url |-> q.next_page]

\* try_next: the query afterwards, the value returned (Ok(Some(r)), Ok(None)
\* or Err) and the URL requested, if any
try_next(q, srv, outcome) ==
    IF q.results # <<>>
    THEN [q |-> [q EXCEPT !.results = Tail(q.results)],
          r |-> [tag |-> "Some", item |-> Head(q.results)], url |-> NoUrl]
    ELSE IF q.next_page = NoUrl
    THEN [q |-> q, r |-> [tag |-> "None", item |-> NoResult], url |-> NoUrl]
    ELSE IF outcome # "ok"
    THEN [q |-> q, r |-> [tag |-> "Err", item |-> NoResult], url |-> q.next_page]
    ELSE LET next_page == srv[q.next_page]
             rest == IF next_page.results = <<>> THEN <<>> ELSE Tail(next_page.results)
         IN [q |-> [q EXCEPT !.results = rest, !.next_page = NextPageOf(next_page)],
             r |-> IF next_page.results = <<>>
                   THEN [tag |-> "None", item |-> NoResult]
                   ELSE [tag |-> "Some", item |-> Head(next_page.results)],
             url |-> q.next_page]

\* Iterator::next: Ok(Some(r)) is Some(Ok(r)), Ok(None) is None, Err(e) is
\* Some(Err(e))
IteratorNext(r) ==
    IF r.tag = "Some" THEN [tag |-> "SomeOk", item |-> r.item]
    ELSE IF r.tag = "None" THEN [tag |-> "None", item |-> NoResult]
    ELSE [tag |-> "SomeErr", item |-> NoResult]

NoCall == [call |-> "none", tag |-> "None", item |-> NoResult]

Returned(call, r) == [call |-> call, tag |-> r.tag, item |-> r.item]

-----------------------------------------------------------------------------
(* The conversion as a state machine: a geometry is given, try_into is     *)
(* called on it once.                                                      *)

QueryIdle ==
    /\ server = <<>>
    /\ query = NotCreated
    /\ ret = NoCall
    /\ yielded = <<>>
    /\ fetched = <<>>
    /\ failures = 0

Init ==
    /\ result = Unset
    /\ QueryIdle
    /\ \/ \E g \in Points : source = Geometry("Point", g)
       \/ \E g \in MultiPoints : source = Geometry("MultiPoint", g)
       \/ \E g \in Lines : source = Geometry("Line", g)
       \/ \E g \in LineStrings : source = Geometry("LineString", g)
       \/ \E g \in MultiLineStrings : source = Geometry("MultiLineString", g)
       \/ \E g \in Polygons : source = Geometry("Polygon", g)
       \/ \E g \in MultiPolygons : source = Geometry("MultiPolygon", g)
       \/ \E g \in Rects : source = Geometry("Rect", g)
       \/ \E g \in Triangles : source = Geometry("Triangle", g)
       \/ \E g \in PointCollections : source = Geometry("GeometryCollection", g)
       \/ \E g \in PolygonCollections : source = Geometry("GeometryCollection", g)

Convert(tag, r) ==
    /\ result.status = "Unset"
    /\ source.tag = tag
    /\ result' = r
    /\ UNCHANGED <<source, server, query, ret, yielded, fetched, failures>>

TryIntoPoint == Convert("Point", Ok("Point", PointIntoEsriPoint(source.g)))

TryIntoMultiPoint ==
    Convert("MultiPoint", Ok("MultiPoint", MultiPointIntoEsriMultiPoint(source.g)))

TryIntoLine == Convert("Line", Ok("Polyline", LineIntoEsriPolyline(source.g)))

TryIntoLineString ==
    Convert("LineString", Ok("Polyline", LineStringIntoEsriPolyline(source.g)))

TryIntoMultiLineString ==
    Convert("MultiLineString", Ok("Polyline", MultiLineStringIntoEsriPolyline(source.g)))

TryIntoPolygon == Convert("Polygon", Ok("Polygon", PolygonIntoEsriPolygon(source.g)))

TryIntoMultiPolygon ==
    Convert("MultiPolygon", Ok("Polygon", MultiPolygonIntoEsriPolygon(source.g)))

TryIntoRect == Convert("Rect", Ok("Polygon", RectIntoEsriPolygon(source.g)))

TryIntoTriangle == Convert("Triangle", Ok("Polygon", TriangleIntoEsriPolygon(source.g)))

\* a collection converted as if it were an empty multi point
TryIntoGeometryCollectionAsMultiPoint ==
    Convert("GeometryCollection", Ok("MultiPoint", MultiPointIntoEsriMultiPoint(<<>>)))

TryIntoGeometryCollection == Convert("GeometryCollection", Err)

Next ==
    \/ TryIntoPoint
    \/ TryIntoMultiPoint
    \/ TryIntoLine
    \/ TryIntoLineString
    \/ TryIntoMultiLineString
    \/ TryIntoPolygon
    \/ TryIntoMultiPolygon
    \/ TryIntoRect
    \/ TryIntoTriangle
    \/ TryIntoGeometryCollection

Spec == Init /\ [][Next]_vars

-----------------------------------------------------------------------------
(* The paginated queries as a state machine: a query is created by its     *)
(* first request, then next() and try_next() are called on it.             *)

ConversionIdle ==
    /\ source = Geometry("Point", Coord(0, 0))
    /\ result = Unset

QueryInit ==
    /\ ConversionIdle
    /\ server \in Servers
    /\ query = NotCreated
    /\ ret = NoCall
    /\ yielded = <<>>
    /\ fetched = <<>>
    /\ failures = 0

\* new(): the first request; on failure, or on an error document, no query
New(kind) ==
    /\ query.kind = "NotCreated"
    /\ \E outcome \in Outcomes \cup {"api_err"} :
          IF outcome = "ok"
          THEN /\ query' = QueryNew(kind, server[1])
               /\ ret' = [call |-> "new", tag |-> "Ok", item |-> NoResult]
          ELSE /\ query' = query
               /\ ret' = [call |-> "new", tag |-> "Err", item |-> NoResult]
    /\ UNCHANGED <<source, result, server, yielded, fetched, failures>>

NearPointQueryNew == New("NearPointQuery")

WithinExtentQueryNew == New("WithinExtentQuery")

\* a call of try_next
TryNext(kind) ==
    /\ query.kind = kind
    /\ \E outcome \in Outcomes :
          LET t == try_next(query, server, outcome)
          IN /\ t.r.tag = "Err" => failures < MaxFailures
             /\ query' = t.q
             /\ ret' = Returned("try_next", t.r)
             /\ yielded' = IF t.r.tag = "Some" THEN Append(yielded, t.r.item) ELSE yielded
             /\ fetched' = IF t.url # NoUrl THEN Append(fetched, t.url) ELSE fetched
             /\ failures' = IF t.r.tag = "Err" THEN failures + 1 ELSE failures
    /\ UNCHANGED <<source, result, server>>

\* a call of Iterator::next
IterNext(kind) ==
    /\ query.kind = kind
    /\ \E outcome \in Outcomes :
          LET t == try_next(query, server, outcome)
          IN /\ t.r.tag = "Err" => failures < MaxFailures
             /\ query' = t.q
             /\ ret' = Returned("next", IteratorNext(t.r))
             /\ yielded' = IF t.r.tag = "Some" THEN Append(yielded, t.r.item) ELSE yielded
             /\ fetched' = IF t.url # NoUrl THEN Append(fetched, t.url) ELSE fetched
             /\ failures' = IF t.r.tag = "Err" THEN failures + 1 ELSE failures
    /\ UNCHANGED <<source, result, server>>

NearPointQueryTryNext == TryNext("NearPointQuery")

NearPointQueryNext == IterNext("NearPointQuery")

WithinExtentQueryTryNext == TryNext("WithinExtentQuery")

WithinExtentQueryNext == IterNext("WithinExtentQuery")

QueryStep ==
    \/ NearPointQueryNew
    \/ WithinExtentQueryNew
    \/ NearPointQueryTryNext
    \/ NearPointQueryNext
    \/ WithinExtentQueryTryNext
    \/ WithinExtentQueryNext

SpecQuery == QueryInit /\ [][QueryStep]_vars

-----------------------------------------------------------------------------
(* Vocabulary of the properties: winding by signed area, simple rings.     *)

\* the target coordinate that holds the components of source coordinate c
XY(c) == <<c.x, c.y>>

XYs(ls) == [i \in 1..Len(ls) |-> XY(ls[i])]

\* twice the signed area of a ring of target coordinates (shoelace sum)
RECURSIVE Area2(_)
Area2(r) ==
    IF Len(r) < 2 THEN 0
    ELSE r[1][1] * r[2][2] - r[2][1] * r[1][2] + Area2(Tail(r))

IsClockwise(r) == Area2(r) < 0

IsCounterClockwise(r) == Area2(r) > 0

Cross(o, a, b) == (a[1] - o[1]) * (b[2] - o[2]) - (a[2] - o[2]) * (b[1] - o[1])

Between(a, b, v) == (a <= v /\ v <= b) \/ (b <= v /\ v <= a)

\* point q lies on the closed segment from a to b
OnSegment(a, b, q) ==
    Cross(a, b, q) = 0 /\ Between(a[1], b[1], q[1]) /\ Between(a[2], b[2], q[2])

\* the closed segments a-b and c-d share a point
SegmentsMeet(a, b, c, d) ==
    \/ /\ Cross(c, d, a) * Cross(c, d, b) < 0
       /\ Cross(a, b, c) * Cross(a, b, d) < 0
    \/ OnSegment(c, d, a) \/ OnSegment(c, d, b)
    \/ OnSegment(a, b, c) \/ OnSegment(a, b, d)

\* a simple ring: closed, at least three vertices, no vertex visited twice
\* (but for the closing coordinate), and no two edges meeting except
\* neighbours at their shared vertex
IsSimple(r) ==
    LET n == Len(r) - 1
    IN /\ Len(r) >= 4
       /\ r[1] = r[Len(r)]
       /\ \A i, j \in 1..n : i < j => r[i] # r[j]
       /\ \A i, j \in 1..n :
             i < j =>
               IF j = i + 1
               THEN ~OnSegment(r[j], r[j + 1], r[i]) /\ ~OnSegment(r[i], r[i + 1], r[j + 1])
               ELSE IF i = 1 /\ j = n
               THEN ~OnSegment(r[j], r[j + 1], r[i + 1]) /\ ~OnSegment(r[i], r[i + 1], r[j])
               ELSE ~SegmentsMeet(r[i], r[i + 1], r[j], r[j + 1])

\* all coordinates of r on one line (or fewer than three of them)
IsCollinear(r) == \A i, j, k \in 1..Len(r) : Cross(r[i], r[j], r[k]) = 0

Converted == result.status = "Ok"

\* the polygon a Polygon, Rect or Triangle source is converted as
SourcePolygon ==
    IF source.tag = "Rect" THEN RectToPolygon(source.g)
    ELSE IF source.tag = "Triangle" THEN TriangleToPolygon(source.g)
    ELSE source.g

\* the rings of that polygon, exterior first, as target coordinates
SourceRings ==
    <<XYs(SourcePolygon.exterior)>>
        \o [i \in 1..Len(SourcePolygon.interiors) |-> XYs(SourcePolygon.interiors[i])]

PolygonLike == source.tag \in {"Polygon", "Rect", "Triangle"}

-----------------------------------------------------------------------------
(* Properties of the polygon conversion.                                   *)

\* C1 as stated: of every converted Polygon, Rect or Triangle the first
\* ring is clockwise and every later ring counter-clockwise, whatever the
\* input rings were.
C1_WindingAlways ==
    (Converted /\ PolygonLike) =>
        /\ IsClockwise(result.value.rings[1])
        /\ \A i \in 2..Len(result.value.rings) : IsCounterClockwise(result.value.rings[i])

\* C1 amended: of every converted Polygon, Rect or Triangle, each ring that
\* is simple on input is clockwise on output if it is the first ring and
\* counter-clockwise if it is a later ring.
C1_WindingOfSimpleRings ==
    (Converted /\ PolygonLike) =>
        \A i \in 1..Len(SourceRings) :
            IsSimple(SourceRings[i]) =>
                IF i = 1 THEN IsClockwise(result.value.rings[i])
                ELSE IsCounterClockwise(result.value.rings[i])

\* C1 witness: a polygon converted whose simple exterior was given
\* counter-clockwise and whose simple first hole was given clockwise
C1_Witness ==
    /\ Converted /\ source.tag = "Polygon"
    /\ Len(SourceRings) >= 2
    /\ IsSimple(SourceRings[1]) /\ IsCounterClockwise(SourceRings[1])
    /\ IsSimple(SourceRings[2]) /\ IsClockwise(SourceRings[2])
    /\ IsClockwise(result.value.rings[1])

\* the polygon with the point order of its exterior ring reversed
ExteriorReversed(poly) == PolygonNew(Reverse(poly.exterior), poly.interiors)

\* C2 as stated: a polygon and its copy with the exterior ring reversed
\* convert to the same target polygon.
C2_ReversedExteriorSame ==
    (Converted /\ source.tag = "Polygon") =>
        result.value = PolygonIntoEsriPolygon(ExteriorReversed(source.g))

\* C2 amended: a polygon whose exterior ring is simple and its copy with
\* the exterior ring reversed convert to the same target polygon.
C2_ReversedSimpleExteriorSame ==
    (Converted /\ source.tag = "Polygon" /\ IsSimple(SourceRings[1])) =>
        result.value = PolygonIntoEsriPolygon(ExteriorReversed(source.g))

\* C2 witness: a converted polygon with a hole whose simple exterior was
\* given counter-clockwise, so that it is reversed and its copy is not
C2_Witness ==
    /\ Converted /\ source.tag = "Polygon"
    /\ Len(SourceRings) >= 2
    /\ IsSimple(SourceRings[1]) /\ IsCounterClockwise(SourceRings[1])
    /\ ExteriorReversed(source.g) # source.g

\* the ring r as the exterior conversion is said to emit it
ExteriorAsSaid(r) == IF IsClockwise(r) THEN r ELSE Reverse(r)

\* the ring r as the interior conversion is said to emit it
InteriorAsSaid(r) == IF IsCounterClockwise(r) THEN r ELSE Reverse(r)

\* the counter-clockwise unit square and its clockwise listing
UnitSquare == <<Coord(0, 0), Coord(1, 0), Coord(1, 1), Coord(0, 1), Coord(0, 0)>>

UnitSquareClockwise == <<<<0, 0>>, <<0, 1>>, <<1, 1>>, <<1, 0>>, <<0, 0>>>>

\* a target polygon read back as a source polygon: first ring the exterior
AsPolygon(esri) ==
    LET ring(i) == [k \in 1..Len(esri.rings[i]) |->
                        Coord(esri.rings[i][k][1], esri.rings[i][k][2])]
    IN PolygonNew(ring(1), [i \in 1..(Len(esri.rings) - 1) |-> ring(i + 1)])

\* C3 as stated: the exterior ring is emitted as given if it is clockwise
\* and exactly reversed otherwise; an interior ring as given if it is
\* counter-clockwise and exactly reversed otherwise; the counter-clockwise
\* unit square comes out in its clockwise listing.
C3_ReversalAsSaid ==
    (Converted /\ source.tag = "Polygon") =>
        /\ result.value.rings[1] = ExteriorAsSaid(SourceRings[1])
        /\ \A i \in 2..Len(SourceRings) :
              result.value.rings[i] = InteriorAsSaid(SourceRings[i])
        /\ source.g = PolygonNew(UnitSquare, <<>>) =>
              result.value.rings = <<UnitSquareClockwise>>

\* C3 amended: every ring is emitted exactly as given or exactly reversed,
\* each ring by itself; a simple exterior ring as given if it is clockwise
\* and reversed if it is counter-clockwise; a simple interior ring as given
\* if it is counter-clockwise and reversed if it is clockwise; a ring of
\* fewer than 4 coordinates or with all coordinates on one line as given;
\* the counter-clockwise unit square comes out in its clockwise listing;
\* and converting the output of a polygon of simple rings changes nothing.
C3_ReversalOfSimpleRings ==
    (Converted /\ source.tag = "Polygon") =>
        /\ \A i \in 1..Len(SourceRings) :
              LET in == SourceRings[i]
                  out == result.value.rings[i]
              IN /\ out \in {in, Reverse(in)}
                 /\ IsSimple(in) =>
                       out = IF i = 1 THEN ExteriorAsSaid(in) ELSE InteriorAsSaid(in)
                 /\ (Len(in) < 4 \/ IsCollinear(in)) => out = in
        /\ source.g = PolygonNew(UnitSquare, <<>>) =>
              result.value.rings = <<UnitSquareClockwise>>
        /\ (\A i \in 1..Len(SourceRings) : IsSimple(SourceRings[i])) =>
              PolygonIntoEsriPolygon(AsPolygon(result.value)) = result.value

\* C3 witness: a converted polygon of mixed winding, its simple exterior
\* given clockwise and kept, its simple hole given clockwise and reversed
C3_Witness ==
    /\ Converted /\ source.tag = "Polygon"
    /\ Len(SourceRings) >= 2
    /\ IsSimple(SourceRings[1]) /\ IsClockwise(SourceRings[1])
    /\ IsSimple(SourceRings[2]) /\ IsClockwise(SourceRings[2])
    /\ result.value.rings[1] = SourceRings[1]
    /\ result.value.rings[2] = Reverse(SourceRings[2])
    /\ result.value.rings[2] # SourceRings[2]

\* the counter-clockwise unit square has been converted
C3_UnitSquareConverted ==
    Converted /\ source.tag = "Polygon" /\ source.g = PolygonNew(UnitSquare, <<>>)

-----------------------------------------------------------------------------
(* Ring count, flattening, closure.                                        *)

UpToReversal(r) == {r, Reverse(r)}

\* C4: a converted Polygon with k interior rings has exactly 1 + k target
\* rings; the first holds the coordinates of the exterior ring (as given or
\* reversed) and ring i + 1 those of interior ring i.
C4_RingCountAndOrder ==
    (Converted /\ source.tag = "Polygon") =>
        /\ Len(result.value.rings) = 1 + Len(source.g.interiors)
        /\ result.value.rings[1] \in UpToReversal(XYs(source.g.exterior))
        /\ \A i \in 1..Len(source.g.interiors) :
              result.value.rings[i + 1] \in UpToReversal(XYs(source.g.interiors[i]))

\* C4 witness: a converted polygon with two interior rings that differ from
\* each other and from the exterior ring, reversed or not
C4_Witness ==
    /\ Converted /\ source.tag = "Polygon"
    /\ Len(source.g.interiors) = 2
    /\ XYs(source.g.interiors[1]) \notin UpToReversal(XYs(source.g.interiors[2]))
    /\ XYs(source.g.exterior) \notin UpToReversal(XYs(source.g.interiors[1]))
    /\ XYs(source.g.exterior) \notin UpToReversal(XYs(source.g.interiors[2]))

RECURSIVE SumRingCounts(_)
SumRingCounts(mp) ==
    IF mp = <<>> THEN 0 ELSE 1 + Len(Head(mp).interiors) + SumRingCounts(Tail(mp))

\* C5: the rings of a converted MultiPolygon are the rings of its polygons
\* converted one by one, concatenated in polygon order; their number is the
\* sum of 1 + interior ring count over the polygons.
C5_MultiPolygonFlattening ==
    (Converted /\ source.tag = "MultiPolygon") =>
        /\ result.value.rings =
              Flatten([i \in 1..Len(source.g) |-> PolygonIntoEsriPolygon(source.g[i]).rings])
        /\ Len(result.value.rings) = SumRingCounts(source.g)

\* C5 witness: a converted multi polygon of two polygons, the first with a
\* hole and a counter-clockwise exterior, the second with a clockwise one
C5_Witness ==
    /\ Converted /\ source.tag = "MultiPolygon"
    /\ Len(source.g) = 2
    /\ Len(source.g[1].interiors) >= 1
    /\ IsCounterClockwise(XYs(source.g[1].exterior))
    /\ IsClockwise(XYs(source.g[2].exterior))
    /\ Len(result.value.rings) >= 3

\* the rings or paths of the source, in order, as target coordinates
SourceSequences ==
    IF PolygonLike THEN SourceRings
    ELSE IF source.tag = "MultiPolygon"
    THEN Flatten([i \in 1..Len(source.g) |->
                    <<XYs(source.g[i].exterior)>>
                        \o [k \in 1..Len(source.g[i].interiors) |->
                                XYs(source.g[i].interiors[k])]])
    ELSE IF source.tag = "MultiLineString"
    THEN [i \in 1..Len(source.g) |-> XYs(source.g[i])]
    ELSE IF source.tag = "LineString" THEN <<XYs(source.g)>>
    ELSE <<>>

\* the rings or paths of the result
TargetSequences ==
    IF result.tag = "Polygon" THEN result.value.rings
    ELSE IF result.tag = "Polyline" THEN result.value.paths
    ELSE <<>>

\* C6: a ring (or path) whose first and last coordinates are equal comes
\* out with as many coordinates as it had and with first and last
\* coordinates equal to that endpoint.
C6_ClosurePreserved ==
    (Converted /\ SourceSequences # <<>>) =>
        \A i \in 1..Len(SourceSequences) :
            LET in == SourceSequences[i]
                out == TargetSequences[i]
            IN (in # <<>> /\ in[1] = in[Len(in)]) =>
                  /\ Len(out) = Len(in)
                  /\ out[1] = in[1]
                  /\ out[Len(out)] = in[1]

\* C6 witness: a converted polygon whose closed exterior ring was reversed
C6_Witness ==
    /\ Converted /\ source.tag = "Polygon"
    /\ Len(SourceRings[1]) >= 4
    /\ result.value.rings[1] = Reverse(SourceRings[1])
    /\ result.value.rings[1] # SourceRings[1]

-----------------------------------------------------------------------------
(* Dispatch, coordinates, polylines.                                       *)

\* the target variant the table gives a source variant
TableTarget(tag) ==
    IF tag = "Point" THEN "Point"
    ELSE IF tag = "MultiPoint" THEN "MultiPoint"
    ELSE IF tag \in {"Line", "LineString", "MultiLineString"} THEN "Polyline"
    ELSE IF tag \in {"Polygon", "MultiPolygon", "Rect", "Triangle"} THEN "Polygon"
    ELSE "none"

\* C7: once try_into has returned, a GeometryCollection has given the
\* failure value and no geometry, and every other source a geometry of the
\* variant the table names.
C7_DispatchTable ==
    result.status # "Unset" =>
        IF source.tag = "GeometryCollection"
        THEN result = Err
        ELSE result.status = "Ok" /\ result.tag = TableTarget(source.tag)

\* C7 witness: the empty collection given to try_into and rejected
C7_Witness ==
    /\ source.tag = "GeometryCollection"
    /\ result = Err
    /\ source.g = <<>>

\* the coordinates of the source, as coords_iter gives them
SourceCoords ==
    IF source.tag = "Point" THEN {XY(source.g)}
    ELSE IF source.tag = "MultiPoint" THEN {XY(source.g[i]) : i \in 1..Len(source.g)}
    ELSE IF source.tag = "Line" THEN {XY(source.g.start), XY(source.g.end)}
    ELSE IF source.tag = "Rect"
    THEN {<<x, y>> : x \in {source.g.min.x, source.g.max.x},
                     y \in {source.g.min.y, source.g.max.y}}
    ELSE IF source.tag = "Triangle" THEN {XY(source.g[i]) : i \in 1..3}
    ELSE UNION {{SourceSequences[i][k] : k \in 1..Len(SourceSequences[i])} :
                    i \in 1..Len(SourceSequences)}

\* the coordinates of the result
TargetCoords ==
    IF result.tag = "Point" THEN {<<result.value.x, result.value.y>>}
    ELSE IF result.tag = "MultiPoint"
    THEN {result.value.points[i] : i \in 1..Len(result.value.points)}
    ELSE UNION {{TargetSequences[i][k] : k \in 1..Len(TargetSequences[i])} :
                    i \in 1..Len(TargetSequences)}

\* C8: every coordinate of a converted geometry is a coordinate of its
\* source, x first and y second.
C8_CoordinateFidelity == Converted => TargetCoords \subseteq SourceCoords

\* C8 witness: a converted Rect or Triangle with a coordinate whose x and y
\* differ and whose mirror image is no coordinate of the source
C8_Witness ==
    /\ Converted
    /\ source.tag \in {"Rect", "Triangle"}
    /\ \E c \in TargetCoords : c[1] # c[2] /\ <<c[2], c[1]>> \notin SourceCoords

\* C9: a converted MultiLineString has one path per LineString, in order,
\* each with the vertices of its LineString as given; a LineString has one
\* such path; a Line has one path, its start and then its end.
C9_PolylineStructure ==
    /\ (Converted /\ source.tag = "MultiLineString") =>
            /\ Len(result.value.paths) = Len(source.g)
            /\ \A i \in 1..Len(source.g) : result.value.paths[i] = XYs(source.g[i])
    /\ (Converted /\ source.tag = "LineString") =>
            result.value.paths = <<XYs(source.g)>>
    /\ (Converted /\ source.tag = "Line") =>
            result.value.paths = << <<XY(source.g.start), XY(source.g.end)>> >>

\* C9 witness: a converted MultiLineString of an open path of 2 vertices
\* and a closed counter-clockwise path of 5
C9_Witness ==
    /\ Converted /\ source.tag = "MultiLineString"
    /\ Len(source.g) = 2
    /\ Len(source.g[1]) = 2
    /\ IsSimple(XYs(source.g[2])) /\ IsCounterClockwise(XYs(source.g[2]))
    /\ Len(result.value.paths[2]) = 5

\* the example: paths of 2 and 3 vertices converted
C9_ExampleConverted ==
    /\ Converted /\ source.tag = "MultiLineString"
    /\ Len(source.g) = 2 /\ Len(source.g[1]) = 2 /\ Len(source.g[2]) = 3

-----------------------------------------------------------------------------
(* Pagination.                                                             *)

\* every result of every page of the chain, in page order
AllResults == Flatten([p \in 1..Len(server) |-> server[p].results])

IsPrefix(a, b) == Len(a) <= Len(b) /\ a = SubSeq(b, 1, Len(a))

\* C10: while every request of a query has succeeded, the results handed
\* out are those of the pages of the chain, in page order and in-page
\* order, each once; the pages were requested one after the other, each
\* once; and next() has returned None only with every result of the chain
\* handed out.
C10_PaginationComplete ==
    (query.kind # "NotCreated" /\ failures = 0) =>
        /\ IsPrefix(yielded, AllResults)
        /\ fetched = [i \in 1..Len(fetched) |-> i + 1]
        /\ (ret.call = "next" /\ ret.tag = "None") => yielded = AllResults

\* C10, its last part: once next() has returned None, a further call of
\* next() returns None.
C10_NoneIsFinal ==
    [][(ret.call = "next" /\ ret.tag = "None" /\ ret'.call = "next" /\ failures' = 0)
          => ret'.tag = "None"]_vars

\* the last call on the query returned an error
ReturnedError == ret.call \in {"try_next", "next"} /\ ret.tag \in {"Err", "SomeErr"}

Last(s) == s[Len(s)]

\* C11: a call whose page request fails (in transport or in decoding)
\* returns the error, was made with no buffered result left, and leaves
\* the buffered results, next_page and the results handed out as they
\* were; the call that follows an error requests the same URL again; and
\* with failures too the results handed out are those of the chain, in
\* order, none skipped and none twice.
C11_FailedFetchKeepsCursor ==
    [][
        /\ (failures' # failures) =>
              /\ ret'.call \in {"try_next", "next"}
              /\ ret'.tag \in {"Err", "SomeErr"}
              /\ query.results = <<>>
              /\ query' = query
              /\ yielded' = yielded
              /\ fetched' = Append(fetched, query.next_page)
        /\ ReturnedError =>
              /\ Len(fetched') = Len(fetched) + 1
              /\ Last(fetched') = Last(fetched)
        /\ IsPrefix(yielded', AllResults)
    ]_vars

\* C11 witness: a request of a page failed, the same URL was requested
\* again, and that call handed out a result of that page, after the
\* results of the page before it
C11_Witness ==
    /\ failures >= 1
    /\ Len(fetched) >= 2
    /\ fetched[Len(fetched)] = fetched[Len(fetched) - 1]
    /\ ret.tag \in {"Some", "SomeOk"}
    /\ ret.item = PlaceResult(Last(fetched), 1)
    /\ Len(yielded) >= 2

=============================================================================
